---- MODULE Spec2Model ----
(***************************************************************************)
(* Model of the c10-sort exercise: the abstract Sorter (bubble sort over   *)
(* compare/swap) and its three adapters NumbersCollection,                 *)
(* CharactersCollection and LinkedList.                                    *)
(*                                                                         *)
(* Indices are 0-based as in the source; TLA+ sequences are 1-based, so    *)
(* element i of the source is d[i+1] here.  Characters are their UTF-16    *)
(* code units.  An optional argument is <<>> when omitted and <<v>> when   *)
(* supplied.                                                               *)
(***************************************************************************)
EXTENDS Integers, Sequences, FiniteSets, TLC

\* a JavaScript value: its type tag, which tells any two values of different
\* types apart, and its payload
Missing == [type |-> "undefined", payload |-> 0]
Null == [type |-> "null", payload |-> 0]
Num(n) == [type |-> "number", payload |-> n]
Arr(s) == [type |-> "array", payload |-> s]
Obj(f) == [type |-> "object", payload |-> f]

VARIABLES kind, data, head, next, value, pc, i, j, op, threw, cmp, found,
          pre, nswaps, afterSort, log,
          obj1, obj2, merged, mpc,
          events, upc, tpc, tname, tidx, started, invoked, triggered

\* the sort program's variables and those of a deepMerge call
sortVars == <<kind, data, head, next, value, pc, i, j, op, threw, cmp, found,
              pre, nswaps, afterSort, log>>
mergeVars == <<obj1, obj2, merged, mpc>>
\* a User: its Eventing registry, the caller's position, the trigger call in
\* progress and the events the save() in progress has triggered
userVars == <<events, upc, tpc, tname, tidx, started, invoked, triggered>>
vars == <<kind, data, head, next, value, pc, i, j, op, threw, cmp, found,
          pre, nswaps, afterSort, log, obj1, obj2, merged, mpc,
          events, upc, tpc, tname, tidx, started, invoked, triggered>>

\* ---------------------------------------------------------------- bounds
\* longest array / string / list the caller builds freely
MaxLen == 3
\* nesting depth of the objects handed to deepMerge
MaxDepth == 2
\* callbacks the caller registers per event name
MaxHandlers == 2

\* ------------------------------------------------------ input alphabets
NumberValues == {-4, 1, 2, 3}
\* '1' '2' 'A' 'B' 'a' 'b'
Chars == {49, 50, 65, 66, 97, 98}
ListValues == {123, 456}

\* the three demos of index.ts
DemoNumbers == <<2, 1, 3, -4>>
\* "1aBa2"
DemoString == <<49, 97, 66, 97, 50>>
DemoList == <<1234, 456, 123, 789>>

Kinds == {"numbers", "chars", "list"}
Idx == -1 .. MaxLen
OptIdx == {<<>>} \cup {<<r>> : r \in Idx}

\* ------------------------------------------------------- JS primitives
\* the null of `Node | null`
NULL == 0
\* the value of an out-of-range element read and of an array hole
undefined == -1000

Min(a, b) == IF a < b THEN a ELSE b
Max(a, b) == IF a > b THEN a ELSE b

\* d[idx] of an array or a string
Get(d, idx) == IF idx \in 0 .. Len(d) - 1 THEN d[idx + 1] ELSE undefined

\* a > b on numbers, where undefined converts to NaN
Gt(a, b) == a # undefined /\ b # undefined /\ a > b

\* d[idx] = v on an array, idx >= 0: writing past the end grows the array
Put(d, idx, v) ==
  IF idx < Len(d) THEN [d EXCEPT ![idx + 1] = v]
  ELSE d \o [k \in 1 .. idx - Len(d) |-> undefined] \o <<v>>

\* String.prototype.slice(start, end) and slice(start)
Clamp(n, len) == IF n < 0 THEN Max(len + n, 0) ELSE Min(n, len)
Slice(d, start, end) == SubSeq(d, Clamp(start, Len(d)) + 1, Clamp(end, Len(d)))
SliceFrom(d, start) == SubSeq(d, Clamp(start, Len(d)) + 1, Len(d))

\* `${c}` of a character or of undefined ("undefined")
Str(c) == IF c = undefined THEN <<117, 110, 100, 101, 102, 105, 110, 101, 100>>
          ELSE <<c>>

\* `rightIndex: number = leftIndex + 1`: replaced only when omitted
DefaultRight(l, r) == IF r = <<>> THEN l + 1 ELSE r[1]
\* `if (!rightIndex) rightIndex = leftIndex + 1`: replaced when omitted or 0
FalsyRight(l, r) == IF r = <<>> THEN l + 1 ELSE IF r[1] = 0 THEN l + 1 ELSE r[1]

\* --------------------------------------------------- NumbersCollection
NumLength(d) == Len(d)

NumCompareLess(d, l, r) == Gt(Get(d, DefaultRight(l, r)), Get(d, l))
NumCompare(d, l, r) == Gt(Get(d, l), Get(d, DefaultRight(l, r)))

NumSwapClobber(d, l, r) ==
  LET rr == DefaultRight(l, r) IN
  IF l = rr THEN d
  ELSE Put(Put(d, l, Get(d, rr)), rr, Get(d, rr))
NumSwap(d, l, r) ==
  LET rr == DefaultRight(l, r) IN
  IF l = rr THEN d
  ELSE LET a == Get(d, rr)
           b == Get(d, l)
       IN Put(Put(d, l, a), rr, b)

\* ------------------------------------------------ CharactersCollection
CharLength(d) == Len(d)

changeCaseIdentity(letter) == letter
changeCase(letter) ==
  IF letter >= 65 /\ letter <= 66 THEN letter + 32
  ELSE IF letter >= 97 /\ letter <= 98 THEN letter - 32
  ELSE letter

\* changeCase(undefined) reads undefined.length and throws a TypeError
CharCompare(d, l, r) ==
  LET rr == FalsyRight(l, r)
      a == Get(d, l)
      b == Get(d, rr)
  IN IF a = undefined \/ b = undefined
     THEN [threw |-> TRUE, val |-> FALSE]
     ELSE [threw |-> FALSE, val |-> changeCase(a) > changeCase(b)]

CharSwapSkip(d, l, r) ==
  LET rr == FalsyRight(l, r)
      r1 == IF l > 0 THEN Slice(d, 0, l) ELSE <<>>
      r2 == r1 \o Str(Get(d, rr)) \o Str(Get(d, l))
  IN IF rr < Len(d) THEN r2 \o SliceFrom(d, rr + 2) ELSE r2
CharSwap(d, l, r) ==
  LET rr == FalsyRight(l, r)
      r1 == IF l > 0 THEN Slice(d, 0, l) ELSE <<>>
      r2 == r1 \o Str(Get(d, rr)) \o Str(Get(d, l))
  IN IF rr < Len(d) THEN r2 \o SliceFrom(d, rr + 1) ELSE r2

\* ----------------------------------------------------------- LinkedList
\* Nodes are 1 .. Len(nx) in order of creation; nx[n] is n.next, vl[n] is
\* n.value.  Nodes dropped from the chain stay in the heap, unreachable.

\* the nodes visited by `tail = head; while (tail) tail = tail.next`
RECURSIVE Walk(_, _, _)
Walk(tail, nx, fuel) ==
  IF tail = NULL \/ fuel = 0 THEN <<>>
  ELSE <<tail>> \o Walk(nx[tail], nx, fuel - 1)
Chain(h, nx) == Walk(h, nx, Len(nx) + 1)

ListLength(h, nx) == Len(Chain(h, nx))

\* at(index): the node, or NULL standing for the thrown "out of range"
RECURSIVE AtLoop(_, _, _, _, _)
AtLoop(tail, count, index, nx, fuel) ==
  IF tail = NULL \/ fuel = 0 THEN NULL
  ELSE IF count = index THEN tail
  ELSE AtLoop(nx[tail], count + 1, index, nx, fuel - 1)
AtFromOne(h, nx, index) == AtLoop(h, 1, index, nx, Len(nx) + 1)
At(h, nx, index) == AtLoop(h, 0, index, nx, Len(nx) + 1)

ListCompareGeq(h, nx, vl, l, r) ==
  IF h = NULL THEN [threw |-> TRUE, val |-> FALSE]
  ELSE IF nx[h] = NULL THEN [threw |-> TRUE, val |-> FALSE]
  ELSE LET rr == FalsyRight(l, r) IN
       IF rr < ListLength(h, nx)
       THEN IF At(h, nx, l) = NULL \/ At(h, nx, rr) = NULL
            THEN [threw |-> TRUE, val |-> FALSE]
            ELSE [threw |-> FALSE, val |-> vl[At(h, nx, l)] >= vl[At(h, nx, rr)]]
       ELSE [threw |-> FALSE, val |-> FALSE]
ListCompareHeadOnly(h, nx, vl, l, r) ==
  IF h = NULL THEN [threw |-> TRUE, val |-> FALSE]
  ELSE LET rr == FalsyRight(l, r) IN
       IF rr < ListLength(h, nx)
       THEN IF At(h, nx, l) = NULL \/ At(h, nx, rr) = NULL
            THEN [threw |-> TRUE, val |-> FALSE]
            ELSE [threw |-> FALSE, val |-> vl[At(h, nx, l)] > vl[At(h, nx, rr)]]
       ELSE [threw |-> FALSE, val |-> FALSE]
ListCompare(h, nx, vl, l, r) ==
  IF h = NULL THEN [threw |-> TRUE, val |-> FALSE]
  ELSE IF nx[h] = NULL THEN [threw |-> TRUE, val |-> FALSE]
  ELSE LET rr == FalsyRight(l, r) IN
       IF rr < ListLength(h, nx)
       THEN IF At(h, nx, l) = NULL \/ At(h, nx, rr) = NULL
            THEN [threw |-> TRUE, val |-> FALSE]
            ELSE [threw |-> FALSE, val |-> vl[At(h, nx, l)] > vl[At(h, nx, rr)]]
       ELSE [threw |-> FALSE, val |-> FALSE]

\* `if (nodes[0]) nodes[0].next = nodes[2]; else this.head = nodes[2];`
LinkPredHeadOnly(h, nx, n0, n2) == [head |-> n2, next |-> nx]
LinkPred(h, nx, n0, n2) ==
  IF n0 # NULL THEN [head |-> h, next |-> [nx EXCEPT ![n0] = n2]]
  ELSE [head |-> n2, next |-> nx]

\* swap: the statements of the method in order; a throw keeps the
\* assignments made before it
ListSwapNoTail(h, nx, l, r) ==
  LET rr == FalsyRight(l, r)
      n0 == IF l > 0 THEN At(h, nx, l - 1) ELSE NULL
      n1 == At(h, nx, l)
  IN
  IF (l > 0 /\ n0 = NULL) \/ n1 = NULL
  THEN [threw |-> TRUE, head |-> h, next |-> nx]
  ELSE
    LET n2 == nx[n1]
        readsN3 == rr < ListLength(h, nx) - 1
    IN
    IF readsN3 /\ n2 = NULL
    THEN [threw |-> TRUE, head |-> h, next |-> nx]
    ELSE
      LET n3 == IF readsN3 THEN nx[n2] ELSE NULL
          s1 == LinkPred(h, nx, n0, n2)
      IN
      IF n2 = NULL
      THEN [threw |-> TRUE, head |-> s1.head, next |-> s1.next]
      ELSE
        LET nx2 == [s1.next EXCEPT ![n2] = n1]
            nx3 == nx2
        IN [threw |-> FALSE, head |-> s1.head, next |-> nx3]
ListSwapKeepRightNext(h, nx, l, r) ==
  LET rr == FalsyRight(l, r)
      n0 == IF l > 0 THEN At(h, nx, l - 1) ELSE NULL
      n1 == At(h, nx, l)
  IN
  IF (l > 0 /\ n0 = NULL) \/ n1 = NULL
  THEN [threw |-> TRUE, head |-> h, next |-> nx]
  ELSE
    LET n2 == nx[n1]
        readsN3 == rr < ListLength(h, nx) - 1
    IN
    IF readsN3 /\ n2 = NULL
    THEN [threw |-> TRUE, head |-> h, next |-> nx]
    ELSE
      LET n3 == IF readsN3 THEN nx[n2] ELSE NULL
          s1 == LinkPred(h, nx, n0, n2)
      IN
      IF n2 = NULL
      THEN [threw |-> TRUE, head |-> s1.head, next |-> s1.next]
      ELSE
        LET nx2 == s1.next
            nx3 == [nx2 EXCEPT ![n1] = n3]
        IN [threw |-> FALSE, head |-> s1.head, next |-> nx3]
ListSwap(h, nx, l, r) ==
  LET rr == FalsyRight(l, r)
      n0 == IF l > 0 THEN At(h, nx, l - 1) ELSE NULL
      n1 == At(h, nx, l)
  IN
  IF (l > 0 /\ n0 = NULL) \/ n1 = NULL
  THEN [threw |-> TRUE, head |-> h, next |-> nx]
  ELSE
    LET n2 == nx[n1]
        readsN3 == rr < ListLength(h, nx) - 1
    IN
    IF readsN3 /\ n2 = NULL
    THEN [threw |-> TRUE, head |-> h, next |-> nx]
    ELSE
      LET n3 == IF readsN3 THEN nx[n2] ELSE NULL
          s1 == LinkPred(h, nx, n0, n2)
      IN
      IF n2 = NULL
      THEN [threw |-> TRUE, head |-> s1.head, next |-> s1.next]
      ELSE
        LET nx2 == [s1.next EXCEPT ![n2] = n1]
            nx3 == [nx2 EXCEPT ![n1] = n3]
        IN [threw |-> FALSE, head |-> s1.head, next |-> nx3]

\* add(value): a new node, linked after the tail or made head
ListAddFront(h, nx, vl, v) ==
  [head |-> Len(nx) + 1, next |-> nx \o <<h>>, value |-> vl \o <<v>>]
ListAdd(h, nx, vl, v) ==
  LET node == Len(nx) + 1
      c == Chain(h, nx)
  IN [head |-> IF h = NULL THEN node ELSE h,
      next |-> IF h = NULL THEN nx \o <<NULL>>
               ELSE [nx EXCEPT ![c[Len(c)]] = node] \o <<NULL>>,
      value |-> vl \o <<v>>]

\* -------------------------------------------------- the Sortable in use
\* `kind` is the class of the collection the caller constructed; `data` is
\* the array or string of the two data-backed adapters, head/next/value the
\* heap of the LinkedList.

Length(k, d, h, nx) ==
  CASE k = "numbers" -> NumLength(d)
    [] k = "chars" -> CharLength(d)
    [] k = "list" -> ListLength(h, nx)

Compare(k, d, h, nx, vl, l, r) ==
  CASE k = "numbers" -> [threw |-> FALSE, val |-> NumCompare(d, l, r)]
    [] k = "chars" -> CharCompare(d, l, r)
    [] k = "list" -> ListCompare(h, nx, vl, l, r)

\* The fields compare leaves behind.  No compare method assigns to
\* this.data, this.head, a node's next or a node's value (they assign only
\* to their own parameter rightIndex), so the fields come back as given.
NumCompareDataSorting(d, l, r) == IF NumCompare(d, l, r) THEN NumSwap(d, l, r) ELSE d
NumCompareData(d, l, r) == d
CharCompareData(d, l, r) == d
ListCompareHeap(h, nx, vl, l, r) == [head |-> h, next |-> nx, value |-> vl]

CompareState(k, d, h, nx, vl, l, r) ==
  CASE k = "numbers" -> [data |-> NumCompareData(d, l, r), head |-> h, next |-> nx, value |-> vl]
    [] k = "chars" -> [data |-> CharCompareData(d, l, r), head |-> h, next |-> nx, value |-> vl]
    [] k = "list" -> [data |-> d] @@ ListCompareHeap(h, nx, vl, l, r)

Swap(k, d, h, nx, l, r) ==
  CASE k = "numbers" -> [threw |-> FALSE, data |-> NumSwap(d, l, r), head |-> h, next |-> nx]
    [] k = "chars" -> [threw |-> FALSE, data |-> CharSwap(d, l, r), head |-> h, next |-> nx]
    [] k = "list" -> [data |-> d] @@ ListSwap(h, nx, l, r)

\* the backing data, kept while a sort() runs and until the next call
Snapshot == [data |-> data, head |-> head, next |-> next, value |-> value]
NoSnapshot == [data |-> <<>>, head |-> NULL, next |-> <<>>, value |-> <<>>]

BoundedSeq(S, n) == UNION {[1 .. k -> S] : k \in 0 .. n}

\* ------------------------------------------------------------ deepMerge
IndexKeys == <<"0", "1">>
NameKeys == {"a", "b"}
AllKeys == NameKeys \cup {IndexKeys[n] : n \in 1 .. Len(IndexKeys)}

IsArray(x) == x.type = "array"
Truthy(x) == x.type \in {"array", "object"} \/ (x.type = "number" /\ x.payload # 0)
TypeofObject(x) == x.type \in {"null", "array", "object"}

\* Object.keys(x)
OwnKeys(x) ==
  CASE x.type = "object" -> {k \in AllKeys : x.payload[k] # Missing}
    [] x.type = "array" -> {IndexKeys[n] : n \in 1 .. Min(Len(x.payload), Len(IndexKeys))}
    [] OTHER -> {}
\* x[key]
Lookup(x, key) ==
  CASE x.type = "object" -> x.payload[key]
    [] x.type = "array" -> IF \E n \in 1 .. Len(x.payload) : n <= Len(IndexKeys) /\ IndexKeys[n] = key
                        THEN x.payload[CHOOSE n \in 1 .. Len(x.payload) : IndexKeys[n] = key]
                        ELSE Missing
    [] OTHER -> Missing
\* { ...x }
Spread(x) == Obj([k \in AllKeys |-> Lookup(x, k)])

IsPlainObjectNoArrayTest(x) == Truthy(x) /\ TypeofObject(x)
IsPlainObject(x) == Truthy(x) /\ TypeofObject(x) /\ ~IsArray(x)

RECURSIVE deepMerge(_, _)
deepMerge(o1, o2) ==
  IF IsArray(o1) /\ IsArray(o2) THEN Arr(o1.payload \o o2.payload)
  ELSE Obj([key \in AllKeys |->
         IF key \in OwnKeys(o2)
         THEN LET value1 == Lookup(o1, key)
                  value2 == Lookup(o2, key)
              IN IF IsPlainObject(value1) /\ IsPlainObject(value2)
                 THEN deepMerge(value1, value2)
                 ELSE value2
         ELSE Spread(o1).payload[key]])


\* deepMerge has no throw statement; the runtime raises a TypeError for
\* Object.keys(obj2) and for obj1[key] when the object is null or undefined
Nullish(x) == x.type \in {"null", "undefined"}
deepMergeThrows(o1, o2) ==
  \/ Nullish(o2)
  \/ Nullish(o1) /\ OwnKeys(o2) # {}

\* the arguments tried: objects over the keys a and b, nested under a, and arrays
Leaves == {Null, Num(1), Arr(<<Num(1)>>)}
RECURSIVE Objects(_)
Objects(d) ==
  LET inner == IF d <= 1 THEN {} ELSE Objects(d - 1)
  IN {Obj([k \in AllKeys |-> CASE k = "a" -> x [] k = "b" -> y [] OTHER -> Missing]) :
        x \in {Missing} \cup Leaves \cup inner, y \in {Missing} \cup Leaves}
Arrays == {Arr(<<>>), Arr(<<Num(1)>>), Arr(<<Num(1), Num(2)>>)}
MergeInputs == Objects(MaxDepth) \cup Arrays

\* --------------------------------------------------------------- Eventing
EventNames == {"save", "error"}

\* a Callback, by what its body does: log and return, throw, or register
\* a further Callback for an event with on()
Log == [does |-> "log", event |-> "none"]
Raise == [does |-> "throw", event |-> "none"]
Listen(e) == [does |-> "on", event |-> e]
Callbacks == {Log, Raise} \cup {Listen(e) : e \in EventNames}

\* on: handlers = this.events[eventName] || []; handlers.push(callback)
Register(ev, eventName, callback) ==
  [ev EXCEPT ![eventName] = Append(ev[eventName], callback)]

\* what running a Callback does to the registry
RunCallback(ev, callback) ==
  IF callback.does = "on" THEN Register(ev, callback.event, Log) ELSE ev

\* no trigger call in progress, no save() in progress
UserIdle ==
  /\ upc = "idle"
  /\ tpc = "none"
  /\ tname = "none"
  /\ tidx = 0
  /\ started = <<>>
  /\ invoked = <<>>
  /\ triggered = <<>>

\* ------------------------------------------------------------------ Init
\* new NumbersCollection(data) / new CharactersCollection(data) /
\* new LinkedList()
Init ==
  /\ kind \in Kinds
  /\ data \in CASE kind = "numbers" -> BoundedSeq(NumberValues, MaxLen) \cup {DemoNumbers}
                [] kind = "chars" -> BoundedSeq(Chars, MaxLen) \cup {DemoString}
                [] kind = "list" -> {<<>>}
  /\ head = NULL
  /\ next = <<>>
  /\ value = <<>>
  /\ pc = "idle"
  /\ i = 0
  /\ j = 0
  /\ op = "none"
  /\ threw = FALSE
  /\ cmp = FALSE
  /\ found = NULL
  /\ pre = NoSnapshot
  /\ nswaps = 0
  /\ afterSort = FALSE
  /\ log = <<>>
  /\ obj1 = Missing
  /\ obj2 = Missing
  /\ merged = Missing
  /\ mpc = "idle"
  /\ events = [e \in EventNames |-> <<>>]
  /\ UserIdle

\* ----------------------------------------------------- calls of the caller
\* pc is the caller's position: "idle" between calls, "returned" while it
\* holds the outcome of the call it made (op, threw, cmp, found), and inside
\* sort() the statement sort() is at.
\* the caller appends freely up to MaxLen nodes, or replays the demo's adds
MayAdd(v) ==
  \/ v \in ListValues /\ Len(next) < MaxLen
  \/ /\ Len(value) < Len(DemoList)
     /\ value = SubSeq(DemoList, 1, Len(value))
     /\ Chain(head, next) = [k \in 1 .. Len(next) |-> k]
     /\ v = DemoList[Len(value) + 1]

Add(v) ==
  /\ pc = "idle"
  /\ pc' = "returned"
  /\ kind = "list"
  /\ MayAdd(v)
  /\ LET res == ListAdd(head, next, value, v) IN
       /\ head' = res.head
       /\ next' = res.next
       /\ value' = res.value
  /\ op' = "add"
  /\ threw' = FALSE
  /\ pre' = NoSnapshot
  /\ nswaps' = 0
  /\ afterSort' = FALSE
  /\ cmp' = FALSE
  /\ found' = NULL
  /\ UNCHANGED <<kind, data, i, j>>
  /\ UNCHANGED log
  /\ UNCHANGED mergeVars
  /\ UNCHANGED userVars

AtCall(index) ==
  /\ pc = "idle"
  /\ pc' = "returned"
  /\ kind = "list"
  /\ found' = At(head, next, index)
  /\ threw' = (found' = NULL)
  /\ op' = "at"
  /\ pre' = NoSnapshot
  /\ nswaps' = 0
  /\ afterSort' = FALSE
  /\ cmp' = FALSE
  /\ UNCHANGED <<kind, data, head, next, value, i, j>>
  /\ UNCHANGED log
  /\ UNCHANGED mergeVars
  /\ UNCHANGED userVars

CompareCall(l, r) ==
  /\ pc = "idle"
  /\ pc' = "returned"
  /\ LET res == Compare(kind, data, head, next, value, l, r)
         st == CompareState(kind, data, head, next, value, l, r)
     IN
       /\ threw' = res.threw
       /\ cmp' = res.val
       /\ data' = st.data
       /\ head' = st.head
       /\ next' = st.next
       /\ value' = st.value
  /\ op' = "compare"
  /\ pre' = NoSnapshot
  /\ nswaps' = 0
  /\ afterSort' = FALSE
  /\ found' = NULL
  /\ UNCHANGED <<kind, i, j>>
  /\ UNCHANGED log
  /\ UNCHANGED mergeVars
  /\ UNCHANGED userVars

\* Calls left out of the enumeration: an array write at a negative index
\* (it sets a property, not an element) and a swap that grows the array or
\* the string beyond the bound.
MaySwap(l, r) ==
  /\ kind = "numbers" => l >= 0 /\ DefaultRight(l, r) >= 0
  /\ LET res == Swap(kind, data, head, next, l, r) IN
       Len(res.data) <= Max(MaxLen, Len(data))

SwapCall(l, r) ==
  /\ pc = "idle"
  /\ pc' = "returned"
  /\ MaySwap(l, r)
  /\ LET res == Swap(kind, data, head, next, l, r) IN
       /\ threw' = res.threw
       /\ data' = res.data
       /\ head' = res.head
       /\ next' = res.next
  /\ op' = "swap"
  /\ pre' = NoSnapshot
  /\ nswaps' = 0
  /\ afterSort' = FALSE
  /\ cmp' = FALSE
  /\ found' = NULL
  /\ UNCHANGED <<kind, value, i, j>>
  /\ UNCHANGED log
  /\ UNCHANGED mergeVars
  /\ UNCHANGED userVars

\* ------------------------------------------------------------ Sorter.sort
\* log: the calls sort() has made on the collection so far, each with the
\* index it passed and how the call ended
Outcome(res) == IF res.threw THEN "threw" ELSE IF res.val THEN "true" ELSE "false"
InnerBoundFixed(len, outer) == len - 1
InnerBoundShort(len, outer) == len - outer - 2
InnerBoundLong(len, outer) == len - outer
\* the bound of `j < this.length - i - 1`
InnerBound(len, outer) == len - outer - 1

SortCall ==
  /\ pc = "idle" \/ (pc = "returned" /\ op = "sort")
  /\ pc' = "outer"
  /\ i' = 0
  /\ j' = 0
  /\ op' = "sort"
  /\ threw' = FALSE
  /\ pre' = Snapshot
  /\ nswaps' = 0
  /\ afterSort' = (pc = "returned" /\ op = "sort" /\ ~threw)
  /\ cmp' = FALSE
  /\ found' = NULL
  /\ UNCHANGED <<kind, data, head, next, value>>
  /\ log' = <<>>
  /\ UNCHANGED mergeVars
  /\ UNCHANGED userVars

\* `i < this.length` of the outer for; when false sort() returns
OuterTest ==
  /\ pc = "outer"
  /\ IF i < Length(kind, data, head, next)
     THEN /\ pc' = "inner"
          /\ j' = 0
          /\ UNCHANGED <<i, cmp>>
     ELSE /\ pc' = "returned"
          /\ i' = 0
          /\ j' = 0
          /\ cmp' = FALSE
  /\ UNCHANGED <<kind, data, head, next, value, op, threw, found, pre, nswaps, afterSort>>
  /\ UNCHANGED log
  /\ UNCHANGED mergeVars
  /\ UNCHANGED userVars

\* `j < this.length - i - 1` of the inner for; when false, i++
InnerTest ==
  /\ pc = "inner"
  /\ IF j < InnerBound(Length(kind, data, head, next), i)
     THEN /\ pc' = "compare"
          /\ UNCHANGED <<i, j>>
     ELSE /\ pc' = "outer"
          /\ i' = i + 1
          /\ j' = 0
  /\ UNCHANGED <<kind, data, head, next, value, op, threw, cmp, found, pre, nswaps, afterSort>>
  /\ UNCHANGED log
  /\ UNCHANGED mergeVars
  /\ UNCHANGED userVars

\* `if (this.compare(j))`; an error thrown by compare leaves sort()
CompareStep ==
  /\ pc = "compare"
  /\ LET res == Compare(kind, data, head, next, value, j, <<>>)
         st == CompareState(kind, data, head, next, value, j, <<>>)
     IN
       /\ data' = st.data
       /\ head' = st.head
       /\ next' = st.next
       /\ value' = st.value
       /\ IF res.threw
          THEN /\ threw' = TRUE
               /\ pc' = "returned"
               /\ i' = 0
               /\ j' = 0
               /\ cmp' = FALSE
          ELSE /\ cmp' = res.val
               /\ pc' = IF res.val THEN "swap" ELSE "inner"
               /\ j' = IF res.val THEN j ELSE j + 1
               /\ UNCHANGED <<i, threw>>
  /\ UNCHANGED <<kind, op, found, pre, nswaps, afterSort>>
  /\ log' = Append(log, <<"compare", j, Outcome(Compare(kind, data, head, next, value, j, <<>>))>>)
  /\ UNCHANGED mergeVars
  /\ UNCHANGED userVars

\* `this.swap(j)` and the j++ that follows
SwapStep ==
  /\ pc = "swap"
  /\ LET res == Swap(kind, data, head, next, j, <<>>) IN
       /\ data' = res.data
       /\ head' = res.head
       /\ next' = res.next
       /\ IF res.threw
          THEN /\ threw' = TRUE
               /\ pc' = "returned"
               /\ i' = 0
               /\ j' = 0
               /\ cmp' = FALSE
               /\ UNCHANGED nswaps
          ELSE /\ pc' = "inner"
               /\ j' = j + 1
               /\ nswaps' = nswaps + 1
               /\ UNCHANGED <<i, threw, cmp>>
  /\ UNCHANGED <<kind, value, op, found, pre, afterSort>>
  /\ log' = Append(log, <<"swap", j, IF Swap(kind, data, head, next, j, <<>>).threw THEN "threw" ELSE "done">>)
  /\ UNCHANGED mergeVars
  /\ UNCHANGED userVars

\* the caller is done with the outcome of its last call
Discard ==
  /\ pc = "returned"
  /\ pc' = "idle"
  /\ op' = "none"
  /\ threw' = FALSE
  /\ cmp' = FALSE
  /\ found' = NULL
  /\ pre' = NoSnapshot
  /\ nswaps' = 0
  /\ afterSort' = FALSE
  /\ UNCHANGED <<kind, data, head, next, value, i, j>>
  /\ log' = <<>>
  /\ UNCHANGED mergeVars
  /\ UNCHANGED userVars

Next ==
  \/ \E v \in ListValues \cup {DemoList[k] : k \in 1 .. Len(DemoList)} : Add(v)
  \/ \E index \in Idx : AtCall(index)
  \/ \E l \in Idx, r \in OptIdx : CompareCall(l, r)
  \/ \E l \in Idx, r \in OptIdx : SwapCall(l, r)
  \/ SortCall
  \/ OuterTest
  \/ InnerTest
  \/ CompareStep
  \/ SwapStep
  \/ Discard

Spec == Init /\ [][Next]_vars

\* sort() is a synchronous loop: once called it runs on until it returns
SortStep == OuterTest \/ InnerTest \/ CompareStep \/ SwapStep
SpecFair == Spec /\ WF_vars(SortStep)

TypeOK ==
  /\ kind \in Kinds
  /\ pc \in {"idle", "returned", "outer", "inner", "compare", "swap"}
  /\ op \in {"none", "add", "at", "compare", "swap", "sort"}
  /\ head \in 0 .. Len(next)
  /\ Len(next) = Len(value)

\* -------------------------------------------------- a call of deepMerge
InitMerge ==
  /\ kind = "numbers"
  /\ data = <<>>
  /\ head = NULL
  /\ next = <<>>
  /\ value = <<>>
  /\ pc = "idle"
  /\ i = 0
  /\ j = 0
  /\ op = "none"
  /\ threw = FALSE
  /\ cmp = FALSE
  /\ found = NULL
  /\ pre = NoSnapshot
  /\ nswaps = 0
  /\ afterSort = FALSE
  /\ log = <<>>
  /\ obj1 \in MergeInputs
  /\ obj2 \in MergeInputs
  /\ merged = Missing
  /\ mpc = "idle"
  /\ events = [e \in EventNames |-> <<>>]
  /\ UserIdle

\* const merged = deepMerge(obj1, obj2)
MergeCall ==
  /\ mpc = "idle"
  /\ IF deepMergeThrows(obj1, obj2)
     THEN /\ mpc' = "threw"
          /\ UNCHANGED merged
     ELSE /\ mpc' = "returned"
          /\ merged' = deepMerge(obj1, obj2)
  /\ UNCHANGED <<obj1, obj2>>
  /\ UNCHANGED sortVars
  /\ UNCHANGED userVars

NextMerge == MergeCall

SpecMerge == InitMerge /\ [][NextMerge]_vars

\* ------------------------------------------- a User and its Eventing
InitUser ==
  /\ kind = "numbers"
  /\ data = <<>>
  /\ head = NULL
  /\ next = <<>>
  /\ value = <<>>
  /\ pc = "idle"
  /\ i = 0
  /\ j = 0
  /\ op = "none"
  /\ threw = FALSE
  /\ cmp = FALSE
  /\ found = NULL
  /\ pre = NoSnapshot
  /\ nswaps = 0
  /\ afterSort = FALSE
  /\ log = <<>>
  /\ obj1 = Missing
  /\ obj2 = Missing
  /\ merged = Missing
  /\ mpc = "idle"
  /\ events = [e \in EventNames |-> <<>>]
  /\ UserIdle

\* user.on(eventName, callback), called by the program between other calls
On(eventName, callback) ==
  /\ upc = "idle"
  /\ Len(events[eventName]) < MaxHandlers
  /\ events' = Register(events, eventName, callback)
  /\ UNCHANGED <<upc, tpc, tname, tidx, started, invoked, triggered>>
  /\ UNCHANGED sortVars
  /\ UNCHANGED mergeVars

\* trigger(eventName) up to its for loop: it returns at once when no
\* handler is registered.  started is the handlers registered at this point.
BeginTrigger(eventName) ==
  /\ tname' = eventName
  /\ tidx' = 0
  /\ started' = events[eventName]
  /\ invoked' = <<>>
  /\ tpc' = IF Len(events[eventName]) = 0 THEN "returned" ELSE "loop"

\* Calls left out of the enumeration: a trigger or save whose handlers
\* would register more than one callback beyond MaxHandlers for an event.
Growth(names, target) ==
  Cardinality({p \in names \X (1 .. MaxHandlers + 1) :
                 /\ p[2] <= Len(events[p[1]])
                 /\ events[p[1]][p[2]] = Listen(target)})
MayRun(names) ==
  \A target \in EventNames :
    Len(events[target]) + Growth(names, target) <= MaxHandlers + 1

\* user.trigger(eventName), called by the program
TriggerCall(eventName) ==
  /\ upc = "idle"
  /\ MayRun({eventName})
  /\ upc' = "trigger"
  /\ BeginTrigger(eventName)
  /\ UNCHANGED <<events, triggered>>
  /\ UNCHANGED sortVars
  /\ UNCHANGED mergeVars

\* one turn of `for (const handler of handlers) handler()`: the iterator
\* reads the array it was given, with the length it has now; a handler
\* that throws ends trigger with that error
HandlerStep ==
  /\ tpc = "loop"
  /\ IF tidx < Len(events[tname])
     THEN LET handler == events[tname][tidx + 1] IN
            /\ invoked' = Append(invoked, handler)
            /\ tidx' = tidx + 1
            /\ events' = RunCallback(events, handler)
            /\ tpc' = IF handler.does = "throw" THEN "threw" ELSE "loop"
     ELSE /\ tpc' = "returned"
          /\ UNCHANGED <<events, tidx, invoked>>
  /\ UNCHANGED <<upc, tname, started, triggered>>
  /\ UNCHANGED sortVars
  /\ UNCHANGED mergeVars

\* user.save(): the request is sent and save() returns
SaveCall ==
  /\ upc = "idle"
  /\ MayRun({"save", "error"})
  /\ upc' = "pending"
  /\ triggered' = <<>>
  /\ UNCHANGED <<events, tpc, tname, tidx, started, invoked>>
  /\ UNCHANGED sortVars
  /\ UNCHANGED mergeVars

\* the request settles: fulfilled, the then callback runs trigger("save");
\* rejected, the then callback is skipped and the catch callback runs
\* trigger("error")
Respond(ok) ==
  /\ upc = "pending"
  /\ IF ok
     THEN /\ upc' = "then"
          /\ triggered' = Append(triggered, "save")
          /\ BeginTrigger("save")
     ELSE /\ upc' = "catch"
          /\ triggered' = Append(triggered, "error")
          /\ BeginTrigger("error")
  /\ UNCHANGED events
  /\ UNCHANGED sortVars
  /\ UNCHANGED mergeVars

\* the then callback has ended: normally, the promise is fulfilled and the
\* catch callback is skipped; by an error, the promise is rejected and the
\* catch callback runs trigger("error")
ThenSettles ==
  /\ upc = "then"
  /\ tpc \in {"returned", "threw"}
  /\ IF tpc = "threw"
     THEN /\ upc' = "catch"
          /\ triggered' = Append(triggered, "error")
          /\ BeginTrigger("error")
     ELSE /\ upc' = "settled"
          /\ UNCHANGED <<tpc, tname, tidx, started, invoked, triggered>>
  /\ UNCHANGED events
  /\ UNCHANGED sortVars
  /\ UNCHANGED mergeVars

\* the catch callback has ended, normally or by an error nothing handles
CatchSettles ==
  /\ upc = "catch"
  /\ tpc \in {"returned", "threw"}
  /\ upc' = "settled"
  /\ UNCHANGED <<events, tpc, tname, tidx, started, invoked, triggered>>
  /\ UNCHANGED sortVars
  /\ UNCHANGED mergeVars

\* the program moves on after a trigger call or a settled save
UserDiscard ==
  /\ \/ upc = "trigger" /\ tpc \in {"returned", "threw"}
     \/ upc = "settled"
  /\ upc' = "idle"
  /\ tpc' = "none"
  /\ tname' = "none"
  /\ tidx' = 0
  /\ started' = <<>>
  /\ invoked' = <<>>
  /\ triggered' = <<>>
  /\ UNCHANGED events
  /\ UNCHANGED sortVars
  /\ UNCHANGED mergeVars

NextUser ==
  \/ \E e \in EventNames, c \in Callbacks : On(e, c)
  \/ \E e \in EventNames : TriggerCall(e)
  \/ HandlerStep
  \/ SaveCall
  \/ \E ok \in BOOLEAN : Respond(ok)
  \/ ThenSettles
  \/ CatchSettles
  \/ UserDiscard

SpecUser == InitUser /\ [][NextUser]_vars

\* ------------------------------------------------------ views of a state
CurLength == Length(kind, data, head, next)
PreLength == Length(kind, pre.data, pre.head, pre.next)

\* the elements in order: array elements, characters, or list nodes
Elems(k, d, h, nx) == IF k = "list" THEN Chain(h, nx) ELSE d
\* the values in order
ValuesOf(k, d, h, nx, vl) ==
  IF k = "list" THEN [n \in 1 .. ListLength(h, nx) |-> vl[Chain(h, nx)[n]]] ELSE d
CurValues == ValuesOf(kind, data, head, next, value)
PreValues == ValuesOf(kind, pre.data, pre.head, pre.next, pre.value)

Count(s, v) == Cardinality({k \in 1 .. Len(s) : s[k] = v})
SameBag(s, t) ==
  /\ Len(s) = Len(t)
  /\ \A k \in 1 .. Len(s) : Count(s, s[k]) = Count(t, s[k])
NonDescending(s) == \A k \in 1 .. Len(s) - 1 : s[k] <= s[k + 1]
AllNumbers(s) == \A k \in 1 .. Len(s) : s[k] # undefined

\* sort() has returned normally / has returned, normally or by an error
SortDone == pc = "returned" /\ op = "sort" /\ ~threw
SortLeft == pc = "returned" /\ op = "sort"

CompareTrue(k, d, h, nx, vl, l) ==
  LET res == Compare(k, d, h, nx, vl, l, <<>>) IN ~res.threw /\ res.val
CompareFalse(k, d, h, nx, vl, l) ==
  LET res == Compare(k, d, h, nx, vl, l, <<>>) IN ~res.threw /\ ~res.val

\* ------------------------------------------------------------------ C1
\* C1: after sort() returns, compare(i) is false for every adjacent index
\* 0 <= i <= length-2, for each of the three adapters.
C1_OrderedAfterSort ==
  SortDone =>
    \A k \in 0 .. CurLength - 2 :
      CompareFalse(kind, data, head, next, value, k)

C1_Witness == SortDone /\ kind = "list" /\ nswaps >= 3

\* ------------------------------------------------------------------ C2
\* C2: sort() of a NumbersCollection built on an array of numbers leaves
\* the non-descending permutation of the input; [2, 1, 3, -4] becomes
\* [-4, 1, 2, 3].
C2_NumbersSorted ==
  (SortDone /\ kind = "numbers" /\ AllNumbers(pre.data)) =>
    /\ SameBag(data, pre.data)
    /\ NonDescending(data)
    /\ pre.data = DemoNumbers => data = <<-4, 1, 2, 3>>

C2_Witness ==
  SortDone /\ kind = "numbers" /\ pre.data = DemoNumbers /\ data = <<-4, 1, 2, 3>>

\* ------------------------------------------------------------------ C3
\* C3: sort() of a LinkedList makes the traversal from head list the same
\* multiset of values in non-descending order; 1234, 456, 123, 789 becomes
\* 123, 456, 789, 1234.
C3_ListSorted ==
  (SortDone /\ kind = "list") =>
    /\ SameBag(CurValues, PreValues)
    /\ NonDescending(CurValues)
    /\ PreValues = DemoList => CurValues = <<123, 456, 789, 1234>>

C3_Witness ==
  SortDone /\ kind = "list" /\ PreValues = DemoList
           /\ CurValues = <<123, 456, 789, 1234>>

\* ------------------------------------------------------------------ C4
\* C4: sort() of a CharactersCollection leaves a permutation of the input
\* in which no adjacent pair compares out of order under the adapter's
\* compare; "1aBa2" becomes "12aaB".
C4_CharsSorted ==
  (SortDone /\ kind = "chars") =>
    /\ SameBag(data, pre.data)
    /\ \A k \in 0 .. Len(data) - 2 : ~CharCompare(data, k, <<>>).val
    /\ pre.data = DemoString => data = <<49, 50, 97, 97, 66>>

C4_Witness ==
  SortDone /\ kind = "chars" /\ pre.data = DemoString
           /\ data = <<49, 50, 97, 97, 66>>

\* ------------------------------------------------------------------ C5
\* C5: a sort() called right after a sort() leaves the backing data as the
\* first call left it and performs no swap.
C5_SortIdempotent ==
  (SortDone /\ afterSort) => (Snapshot = pre /\ nswaps = 0)

C5_Witness ==
  SortDone /\ afterSort /\ kind = "list" /\ CurLength >= 3
           /\ \E k \in 1 .. CurLength - 1 : CurValues[k] = CurValues[k + 1]

\* ------------------------------------------------------------------ C6
\* C6: length has the value it had when sort() was called at every point
\* of the sort and after it.
C6_LengthPreserved ==
  op = "sort" => CurLength = PreLength

C6_Witness == pc = "inner" /\ kind = "chars" /\ nswaps >= 2

\* ------------------------------------------------------------------ C7
\* C7: sort() of a collection of length 0 or 1 raises no error and leaves
\* the backing data unchanged, the LinkedList included.
C7_SortOfShort ==
  (SortLeft /\ PreLength <= 1) => (~threw /\ Snapshot = pre)

C7_Witness == SortLeft /\ kind = "list" /\ PreLength = 1

\* ------------------------------------------------------------------ C8
\* C8: at(index) throws for every index outside [0, length-1] and returns
\* the node at that position from head for an index inside.
C8_AtChecksRange ==
  [][\A index \in Idx :
       (op' = "at" /\ AtCall(index)) =>
         IF index \in 0 .. ListLength(head, next) - 1
         THEN ~threw' /\ found' = Chain(head, next)[index + 1]
         ELSE threw' /\ found' = NULL]_vars

C8_Witness == pc = "returned" /\ op = "at" /\ threw /\ head # NULL

\* ------------------------------------------------------------------ C9
\* C9: swap(left, right) with 0 <= left < right <= length-1, adjacent or
\* not, keeps length and leaves every other element in place.
C9_SwapFrame ==
  [][\A l \in Idx, r \in Idx :
       (op' = "swap" /\ 0 <= l /\ l < r /\ r <= CurLength - 1
          /\ SwapCall(l, <<r>>)) =>
         /\ Length(kind, data', head', next') = CurLength
         /\ \A k \in 0 .. CurLength - 1 :
              k \notin {l, r} =>
                Elems(kind, data', head', next')[k + 1]
                  = Elems(kind, data, head, next)[k + 1]]_vars

\* ----------------------------------------------------------------- C10
\* C10: when compare(left) is true for an adjacent pair, swap(left)
\* exchanges the two elements and compare(left) is false afterwards.
C10_SwapSettlesPair ==
  [][\A l \in 0 .. MaxLen + 1 :
       ( /\ op' = "swap" \/ pc = "swap"
         /\ l + 1 <= CurLength - 1
         /\ CompareTrue(kind, data, head, next, value, l)
         /\ SwapCall(l, <<>>) \/ (SwapStep /\ j = l) ) =>
         /\ CompareFalse(kind, data', head', next', value', l)
         /\ Elems(kind, data', head', next')[l + 1]
              = Elems(kind, data, head, next)[l + 2]
         /\ Elems(kind, data', head', next')[l + 2]
              = Elems(kind, data, head, next)[l + 1]]_vars

C10_Witness == pc = "inner" /\ cmp /\ nswaps >= 1 /\ kind = "numbers"

\* the order each adapter's compare applies to two elements
ElemGreater(k, d, h, nx, vl, a, b) ==
  CASE k = "numbers" -> Gt(Get(d, a), Get(d, b))
    [] k = "chars" -> changeCase(Get(d, a)) > changeCase(Get(d, b))
    [] k = "list" -> vl[Chain(h, nx)[a + 1]] > vl[Chain(h, nx)[b + 1]]

InRange(x) == x \in 0 .. CurLength - 1
NodeSet(h, nx) == {Chain(h, nx)[k] : k \in 1 .. ListLength(h, nx)}

\* ----------------------------------------------------------------- C11
\* C11: compare or swap called with an index outside [0, length-1] (right
\* being left+1 when omitted) signals a failure and leaves the backing data
\* as it was.
C11_OutOfRangeFails ==
  [][\A l \in Idx, r \in OptIdx :
       ( /\ op' \in {"compare", "swap"}
         /\ ~InRange(l) \/ ~InRange(IF r = <<>> THEN l + 1 ELSE r[1])
         /\ CompareCall(l, r) \/ SwapCall(l, r) ) =>
         (threw' /\ Snapshot' = Snapshot)]_vars

\* ----------------------------------------------------------------- C12
\* C12: compare(left) gives what compare(left, left+1) gives, and
\* compare(left, right) with a supplied right in [0, length-1], 0 included,
\* compares the element at left with the element at right.
C12_RightOnlyWhenOmitted ==
  [][\A l \in Idx :
       /\ (op' = "compare" /\ CompareCall(l, <<>>)) =>
            LET res == Compare(kind, data, head, next, value, l, <<l + 1>>)
            IN threw' = res.threw /\ cmp' = res.val
       /\ \A r \in Idx :
            (op' = "compare" /\ InRange(l) /\ InRange(r) /\ CompareCall(l, <<r>>)) =>
              /\ ~threw'
              /\ cmp' = ElemGreater(kind, data, head, next, value, l, r)]_vars

\* ----------------------------------------------------------------- C13
\* C13: on a LinkedList with fewer than two nodes compare throws for every
\* pair of arguments and leaves the list unchanged.
C13_ShortListCompareThrows ==
  [][\A l \in Idx, r \in OptIdx :
       ( /\ op' = "compare"
         /\ kind = "list"
         /\ ListLength(head, next) < 2
         /\ CompareCall(l, r) ) =>
         (threw' /\ head' = head /\ next' = next /\ value' = value)]_vars

C13_Witness ==
  /\ pc = "returned" /\ op = "compare" /\ threw
  /\ kind = "list" /\ ListLength(head, next) = 1

\* ----------------------------------------------------------------- C14
\* C14: on a LinkedList with at least two nodes compare(left, right) returns
\* false without an error when right >= length, and the outcome of
\* value(at(left)) > value(at(right)) when right < length.
C14_ListCompareRule ==
  [][\A l \in Idx, r \in OptIdx :
       ( /\ op' = "compare"
         /\ kind = "list"
         /\ ListLength(head, next) >= 2
         /\ CompareCall(l, r) ) =>
         LET right == IF r = <<>> THEN l + 1 ELSE r[1] IN
         IF right >= ListLength(head, next) THEN ~threw' /\ ~cmp'
         ELSE IF InRange(l) /\ InRange(right)
              THEN ~threw' /\ cmp' = ElemGreater(kind, data, head, next, value, l, right)
              ELSE threw']_vars

\* ----------------------------------------------------------------- C15
\* C15: after add calls and swap(i) calls with 0 <= i <= length-2, those of
\* sort() included, the chain from head has no cycle and ends in null, and
\* length is the number of nodes reachable from head and the number of add
\* calls made.
SwapAdjacent(l) ==
  /\ l \in 0 .. CurLength - 2
  /\ SwapCall(l, <<>>)

InitList == Init /\ kind = "list"

NextList ==
  \/ \E v \in ListValues \cup {DemoList[k] : k \in 1 .. Len(DemoList)} : Add(v)
  \/ \E l \in Idx : SwapAdjacent(l)
  \/ SortCall
  \/ OuterTest
  \/ InnerTest
  \/ CompareStep
  \/ SwapStep
  \/ Discard

SpecList == InitList /\ [][NextList]_vars

C15_ChainWellFormed ==
  LET c == Chain(head, next) IN
  /\ Len(c) <= Len(next)
  /\ \A a, b \in 1 .. Len(c) : a # b => c[a] # c[b]
  /\ ListLength(head, next) = Cardinality(NodeSet(head, next))
  /\ ListLength(head, next) = Len(value)

C15_Witness ==
  pc = "returned" /\ op = "swap" /\ ~threw /\ ListLength(head, next) >= 3

\* ----------------------------------------------------------------- C16
\* C16: a LinkedList.swap call that returns, given a left and a right index
\* both inside [0, length-1], and every swap made by sort(), creates no
\* node, changes no node's value and keeps the set of nodes reachable from
\* head; so does a whole sort().
C16_NodeIdentity ==
  /\ [][ /\ \A l \in Idx, r \in OptIdx :
              ( /\ kind = "list"
                /\ op' = "swap"
                /\ InRange(l) /\ InRange(IF r = <<>> THEN l + 1 ELSE r[1])
                /\ SwapCall(l, r)
                /\ ~threw' ) =>
                /\ Len(next') = Len(next)
                /\ value' = value
                /\ NodeSet(head', next') = NodeSet(head, next)
         /\ (kind = "list" /\ pc = "swap" /\ SwapStep) =>
              /\ Len(next') = Len(next)
              /\ value' = value
              /\ NodeSet(head', next') = NodeSet(head, next) ]_vars
  /\ []((SortLeft /\ kind = "list") =>
          /\ Len(next) = Len(pre.next)
          /\ value = pre.value
          /\ NodeSet(head, next) = NodeSet(pre.head, pre.next))

\* ----------------------------------------------------------------- C17
\* C17: add(v) appends at the tail: length grows by one, the last node holds
\* v, the traversal before the call is a prefix of the traversal after it,
\* and on an empty list the new node is head.
C17_AddAppends ==
  [][\A v \in ListValues \cup {DemoList[k] : k \in 1 .. Len(DemoList)} :
       (op' = "add" /\ Add(v)) =>
         LET before == Chain(head, next)
             after == Chain(head', next')
         IN /\ Len(after) = Len(before) + 1
            /\ SubSeq(after, 1, Len(before)) = before
            /\ At(head', next', Len(after) - 1) # NULL
            /\ value'[At(head', next', Len(after) - 1)] = v
            /\ \A n \in 1 .. Len(before) : value'[before[n]] = value[before[n]]
            /\ head = NULL => head' = after[1]]_vars

C17_Witness ==
  pc = "returned" /\ op = "add" /\ ListLength(head, next) >= 2

\* ----------------------------------------------------------------- C18
\* C18: compare, called directly or by sort(), leaves the backing data
\* (array, string, head, every next link and value) as it was, also when it
\* throws.
C18_ComparePure ==
  [][ /\ \A l \in Idx, r \in OptIdx :
           (op' = "compare" /\ CompareCall(l, r)) => Snapshot' = Snapshot
      /\ (pc = "compare" /\ CompareStep) => Snapshot' = Snapshot ]_vars

C18_Witness ==
  pc = "returned" /\ op = "compare" /\ threw /\ kind = "chars" /\ Len(data) >= 2

\* ----------------------------------------------------------------- C19
\* C19: in the string adapter compare on an adjacent pair made of 'a' and
\* 'A' returns false in both orders.
C19_FoldedEqualRank ==
  [][\A l \in Idx :
       ( /\ op' = "compare"
         /\ kind = "chars"
         /\ InRange(l) /\ InRange(l + 1)
         /\ {Get(data, l), Get(data, l + 1)} = {65, 97}
         /\ CompareCall(l, <<>>) ) =>
         (~threw' /\ ~cmp')]_vars

\* ----------------------------------------------------------------- C20
\* C20: deepMerge of two arrays is the first followed by the second; of two
\* plain objects it is an object with exactly the keys of either, where a
\* key of only one keeps its value, a key of both whose values are both
\* non-null non-array objects holds their deepMerge, and any other key of
\* both holds the second object's value.
Present(x) == x # Missing
C20_DeepMergeReference ==
  mpc = "returned" =>
    /\ (obj1.type = "array" /\ obj2.type = "array") => merged = Arr(obj1.payload \o obj2.payload)
    /\ (obj1.type = "object" /\ obj2.type = "object") =>
         /\ merged.type = "object"
         /\ \A k \in AllKeys :
              LET v1 == obj1.payload[k]
                  v2 == obj2.payload[k]
                  mv == merged.payload[k]
              IN /\ Present(mv) <=> (Present(v1) \/ Present(v2))
                 /\ (Present(v1) /\ ~Present(v2)) => mv = v1
                 /\ (~Present(v1) /\ Present(v2)) => mv = v2
                 /\ (Present(v1) /\ Present(v2)) =>
                      IF v1.type = "object" /\ v2.type = "object"
                      THEN mv = deepMerge(v1, v2)
                      ELSE mv = v2

C20_Witness ==
  /\ mpc = "returned"
  /\ obj1.type = "object" /\ obj2.type = "object"
  /\ obj1.payload["a"].type = "object" /\ obj2.payload["a"].type = "object"
  /\ OwnKeys(obj1.payload["a"]) # OwnKeys(obj2.payload["a"])
  /\ OwnKeys(obj1.payload["a"]) \cap OwnKeys(obj2.payload["a"]) # {}
  /\ obj1.payload["b"].type = "array" /\ obj2.payload["b"].type = "array"

\* ----------------------------------------------------------------- C21
\* C21: deepMerge called with an array and a plain object, in either order,
\* throws an error.
C21_MixedTypesThrow ==
  ( /\ mpc # "idle"
    /\ \/ obj1.type = "array" /\ obj2.type = "object"
       \/ obj1.type = "object" /\ obj2.type = "array" ) =>
    mpc = "threw"

\* ----------------------------------------------------------------- C22
\* C22: a LinkedList swap of the adjacent pair at left and left+1, both in
\* range, called directly or by sort(), makes the predecessor of left (head
\* when left = 0) point to the former right node, the former right node
\* point to the former left node and the former left node point to the
\* former successor of right (null for the tail), and changes no other link.
Relinked(l) ==
  LET c == Chain(head, next)
      leftNode == c[l + 1]
      rightNode == c[l + 2]
      after == next[rightNode]
  IN /\ ~threw'
     /\ IF l = 0 THEN head' = rightNode
        ELSE head' = head /\ next'[c[l]] = rightNode
     /\ next'[rightNode] = leftNode
     /\ next'[leftNode] = after
     /\ after = IF l + 2 = Len(c) THEN NULL ELSE c[l + 3]
     /\ Len(next') = Len(next)
     /\ \A n \in 1 .. Len(next) :
          (n \notin {leftNode, rightNode} /\ (l = 0 \/ n # c[l])) => next'[n] = next[n]

C22_AdjacentRelink ==
  [][ /\ \A l \in Idx :
           ( /\ kind = "list"
             /\ op' = "swap"
             /\ l >= 0 /\ l + 1 <= CurLength - 1
             /\ SwapCall(l, <<>>) \/ SwapCall(l, <<l + 1>>) ) => Relinked(l)
      /\ ( /\ kind = "list"
           /\ pc = "swap"
           /\ j + 1 <= CurLength - 1
           /\ SwapStep ) => Relinked(j) ]_vars

C22_Witness ==
  /\ pc = "returned" /\ op = "swap" /\ ~threw /\ kind = "list"
  /\ Chain(head, next) = <<1, 3, 2, 4>>

\* ----------------------------------------------------------------- C23
\* C23: every sort() returns; it returns from the outer loop test with the
\* pass counter equal to the length n, never by an error, and by then it
\* has made exactly n*(n-1)/2 compare calls, whatever the order of the
\* elements, sorted collections included.
Compares(lg) == Cardinality({k \in 1 .. Len(lg) : lg[k][1] = "compare"})

C23_PassesAndCompares ==
  /\ []((pc = "returned" /\ op = "sort") =>
          /\ ~threw
          /\ Compares(log) = (CurLength * (CurLength - 1)) \div 2)
  /\ [][(pc = "outer" /\ op = "sort" /\ pc' = "returned") => i = CurLength]_vars
  /\ ((op = "sort" /\ pc # "returned") ~> (op = "sort" /\ pc = "returned"))

C23_Witness ==
  /\ pc = "returned" /\ op = "sort" /\ afterSort
  /\ CurLength >= 3 /\ Compares(log) >= 3 /\ nswaps = 0

\* ----------------------------------------------------------------- C24
\* C24: every index j that sort() passes to compare or swap has 0 <= j and
\* j+1 <= length-1, no call sort() makes ends in an error, and on a
\* LinkedList the right index compare works out is below length, so the
\* branch for a right index out of bounds is not taken.
C24_IndicesInRange ==
  /\ pc \in {"compare", "swap"} =>
       /\ 0 <= j /\ j + 1 <= CurLength - 1
       /\ kind = "list" => FalsyRight(j, <<>>) < ListLength(head, next)
  /\ \A k \in 1 .. Len(log) :
       /\ 0 <= log[k][2] /\ log[k][2] + 1 <= CurLength - 1
       /\ log[k][3] # "threw"

C24_Witness ==
  pc = "swap" /\ CurLength >= 3 /\ j = CurLength - 2 /\ kind = "list"

\* ----------------------------------------------------------------- C25
\* C25: in the calls sort() makes, a swap(j) comes right after a compare(j)
\* that returned true, every compare(j) that returned true is followed at
\* once by swap(j) and by no second swap, and the compares visit, pass after
\* pass p = 0, 1, ..., the indices 0, 1, ..., length-p-2 in increasing order.
IsCompare(e) == e[1] = "compare"
ComparedIndices(lg) ==
  LET sel == SelectSeq(lg, IsCompare) IN [k \in 1 .. Len(sel) |-> sel[k][2]]

RECURSIVE VisitOrder(_, _)
VisitOrder(n, p) ==
  IF p >= n THEN <<>>
  ELSE [k \in 1 .. (n - p - 1) |-> k - 1] \o VisitOrder(n, p + 1)

C25_SwapFollowsTrueCompare ==
  op = "sort" =>
    /\ \A k \in 1 .. Len(log) :
         /\ log[k][1] = "swap" =>
              k > 1 /\ log[k - 1] = <<"compare", log[k][2], "true">>
         /\ (log[k][1] = "compare" /\ log[k][3] = "true") =>
              IF k < Len(log) THEN log[k + 1][1] = "swap" /\ log[k + 1][2] = log[k][2]
              ELSE pc = "swap" /\ j = log[k][2]
         /\ (log[k][1] = "compare" /\ log[k][3] # "true") =>
              IF k < Len(log) THEN log[k + 1][1] = "compare" ELSE pc # "swap"
    /\ LET visited == ComparedIndices(log)
           order == VisitOrder(CurLength, 0)
       IN /\ Len(visited) <= Len(order)
          /\ visited = SubSeq(order, 1, Len(visited))
          /\ pc = "returned" => visited = order

C25_Witness ==
  /\ pc = "inner" /\ op = "sort" /\ Len(log) >= 4
  /\ log[Len(log)][1] = "swap"
  /\ \E k \in 1 .. Len(log) : log[k][3] = "false"

\* ----------------------------------------------------------------- C26
\* C26: when outer pass p of sort() has ended (the pass counter is p+1), no
\* element at a position from length-1-p to length-1 is smaller, under the
\* adapter's order, than an element before it, and no swap of a later pass
\* touches these positions or moves their elements.  Arrays hold numbers.
Settled == {q \in 0 .. CurLength - 1 : q >= CurLength - i}

C26_BubblePass ==
  /\ []((op = "sort" /\ pc = "outer" /\ (kind = "numbers" => AllNumbers(pre.data))) =>
          \A q \in Settled : \A r \in 0 .. q - 1 :
             ~ElemGreater(kind, data, head, next, value, r, q))
  /\ [][(op = "sort" /\ pc = "swap" /\ SwapStep) =>
          /\ j + 1 < CurLength - i
          /\ \A q \in Settled :
               Elems(kind, data', head', next')[q + 1] = Elems(kind, data, head, next)[q + 1]]_vars

C26_Witness ==
  op = "sort" /\ pc = "swap" /\ i = 1 /\ j = 1 /\ CurLength = 4 /\ nswaps >= 2

\* ----------------------------------------------------------------- C27
\* C27: sort() is stable: with Origin giving, for each position, the
\* position its element had when sort() was called (the swaps sort() made,
\* replayed), two elements that compare false in both orders are in the
\* order they had; two list nodes of equal value are in the order they had.
RECURSIVE Replay(_, _)
Replay(lg, perm) ==
  IF lg = <<>> THEN perm
  ELSE LET e == Head(lg)
           l == e[2] + 1
       IN IF e[1] = "swap" /\ e[3] = "done"
          THEN Replay(Tail(lg), [perm EXCEPT ![l] = perm[l + 1], ![l + 1] = perm[l]])
          ELSE Replay(Tail(lg), perm)
Origin == Replay(log, [k \in 1 .. PreLength |-> k])
PreElems == Elems(kind, pre.data, pre.head, pre.next)

C27_Stable ==
  (op = "sort" /\ pc \in {"outer", "returned"}) =>
    /\ Len(Origin) = CurLength
    /\ \A x \in 1 .. CurLength :
         Elems(kind, data, head, next)[x] = PreElems[Origin[x]]
    /\ \A x, y \in 1 .. CurLength :
         ( /\ x < y
           /\ ~ElemGreater(kind, pre.data, pre.head, pre.next, pre.value,
                           Origin[x] - 1, Origin[y] - 1)
           /\ ~ElemGreater(kind, pre.data, pre.head, pre.next, pre.value,
                           Origin[y] - 1, Origin[x] - 1) ) =>
           Origin[x] < Origin[y]
    /\ kind = "list" =>
         \A x, y \in 1 .. CurLength :
           (x < y /\ value[Chain(head, next)[x]] = value[Chain(head, next)[y]]) =>
             \E a, b \in 1 .. PreLength :
               /\ a < b
               /\ PreElems[a] = Chain(head, next)[x]
               /\ PreElems[b] = Chain(head, next)[y]

C27_Witness ==
  /\ SortDone /\ kind = "list" /\ nswaps >= 2
  /\ \E x, y \in 1 .. CurLength :
       x < y /\ value[Chain(head, next)[x]] = value[Chain(head, next)[y]]

\* ----------------------------------------------------------------- C28
\* C28: LinkedList.swap(left) with left = length-1, the node at left having
\* no successor, fails and leaves head, every next link and length as they
\* were.
C28_FailedSwapKeepsList ==
  [][\A l \in Idx :
       ( /\ kind = "list"
         /\ op' = "swap"
         /\ l >= 0 /\ l = ListLength(head, next) - 1
         /\ SwapCall(l, <<>>) ) =>
         /\ threw'
         /\ head' = head
         /\ next' = next
         /\ ListLength(head', next') = ListLength(head, next)]_vars

\* ----------------------------------------------------------------- C29
\* C29: a trigger(e) call that returns has invoked exactly the callbacks
\* registered for e when it began, each once and in registration order; a
\* callback registered for e during the call is not invoked by it.
C29_TriggerRunsRegistered ==
  tpc = "returned" => invoked = started

\* ----------------------------------------------------------------- C30
\* C30: a save() whose promise chain has settled has triggered exactly one
\* event, 'save' or 'error', whatever the registered handlers did.
C30_SaveTriggersOne ==
  upc = "settled" => (triggered = <<"save">> \/ triggered = <<"error">>)

====
